---- MODULE Spec2Model ----
(***************************************************************************)
(* The questionnaire page of MLPRALS (ui/pages/questionnaire.py) and the   *)
(* application flow around it (ui/pages/app_flow.py) as a state machine.   *)
(*                                                                         *)
(* One action of the model is one Streamlit script run: the user's         *)
(* interaction (a widget value written into the session state, or a button *)
(* click that the run sees as True) followed by the execution of           *)
(* run_app_flow from its first line to its return or to the st.rerun()     *)
(* that abandons it.  A run abandoned by st.rerun() leaves run_requested   *)
(* set, and the only step possible then is the rerun itself.               *)
(*                                                                         *)
(* The eligibility gates are taken as passed.  The session state is the    *)
(* mapping the code treats it as (ss: dict); a keyed widget returns the    *)
(* value stored under its key and creates the key with its default when    *)
(* the key is absent.  ev, last and probe are history variables: they      *)
(* record what a run read and wrote and never influence it.                *)
(***************************************************************************)
EXTENDS Integers, Sequences, FiniteSets, TLC

VARIABLES
    ss,             \* st.session_state, the eight keys of every question
    page_keys,      \* the page-specific keys present in st.session_state
    show_results,   \* st.session_state["__show_results"]
    scoring,        \* domain.scoring.compute_suggested_level, fixed for a session
    run_requested,  \* a script run is pending (page load, st.rerun())
    completed,      \* the count the progress bar of the latest run showed
    responses_raw,  \* "__latest_responses_raw" of the latest run that returned
    missing,        \* "__latest_missing" of the latest run that returned
    results_shown,  \* the latest run called render_results_page
    ev,             \* per question, what its latest evaluation read and wrote
    last,           \* the interaction that started the latest run
    probe,          \* the enable/disable sequence in progress, if any
    actions         \* number of user interactions so far in the session

vars == <<ss, page_keys, show_results, scoring, run_requested, completed,
          responses_raw, missing, results_shown, ev, last, probe, actions>>

----------------------------------------------------------------------------
(* Bounds of the model.                                                    *)

\* user interactions explored per session (reruns are not counted)
MaxActions == 3

\* an import restores levels drawn from 0 .. MaxImportedLevel
MaxImportedLevel == 6

----------------------------------------------------------------------------
(* Python values.  A session-state key holds a bool, an int, a str or      *)
(* None, or is absent.  Strings are sequences of one-character strings.    *)

Absent == [k |-> "absent", b |-> FALSE, n |-> 0, s |-> <<>>]
PyNone == [k |-> "none", b |-> FALSE, n |-> 0, s |-> <<>>]
PyBool(x) == [k |-> "bool", b |-> x, n |-> 0, s |-> <<>>]
PyInt(x) == [k |-> "int", b |-> FALSE, n |-> x, s |-> <<>>]
PyStr(cs) == [k |-> "str", b |-> FALSE, n |-> 0, s |-> cs]

\* ss.get(key): an absent key reads as None
Get(v) == IF v.k = "absent" THEN PyNone ELSE v

\* ss.get(key, False)
GetOrFalse(v) == IF v.k = "absent" THEN PyBool(FALSE) ELSE v

\* Python's bool(value)
Truthy(v) ==
    CASE v.k = "bool" -> v.b
      [] v.k = "int" -> v.n # 0
      [] v.k = "str" -> v.s # <<>>
      [] OTHER -> FALSE

\* Python's int(value) of a bool or an int
AsInt(v) == IF v.k = "bool" THEN (IF v.b THEN 1 ELSE 0) ELSE v.n

Uppers == <<"A", "B", "C", "D", "E", "F", "G", "H", "I", "J", "K", "L", "M",
            "N", "O", "P", "Q", "R", "S", "T", "U", "V", "W", "X", "Y", "Z">>
Lowers == <<"a", "b", "c", "d", "e", "f", "g", "h", "i", "j", "k", "l", "m",
            "n", "o", "p", "q", "r", "s", "t", "u", "v", "w", "x", "y", "z">>
Digits == <<"0", "1", "2", "3", "4", "5", "6", "7", "8", "9">>
Whitespace == {" ", "\t", "\n"}

LowerChar(c) ==
    IF \E i \in 1..Len(Uppers) : Uppers[i] = c
    THEN Lowers[CHOOSE i \in 1..Len(Uppers) : Uppers[i] = c]
    ELSE c

\* str.lower()
StrLower(cs) == [i \in 1..Len(cs) |-> LowerChar(cs[i])]

RECURSIVE LStrip(_)
LStrip(cs) ==
    IF cs # <<>> /\ Head(cs) \in Whitespace THEN LStrip(Tail(cs)) ELSE cs

RECURSIVE RStrip(_)
RStrip(cs) ==
    IF cs # <<>> /\ cs[Len(cs)] \in Whitespace
    THEN RStrip(SubSeq(cs, 1, Len(cs) - 1))
    ELSE cs

\* str.strip()
StrStrip(cs) == RStrip(LStrip(cs))

IsDigit(c) == \E i \in 1..Len(Digits) : Digits[i] = c
DigitValue(c) == (CHOOSE i \in 1..Len(Digits) : Digits[i] = c) - 1

RECURSIVE DigitsValue(_)
DigitsValue(cs) ==
    IF cs = <<>> THEN 0
    ELSE 10 * DigitsValue(SubSeq(cs, 1, Len(cs) - 1)) + DigitValue(cs[Len(cs)])

RECURSIVE NatToStr(_)
NatToStr(n) ==
    IF n < 10 THEN <<Digits[n + 1]>>
    ELSE NatToStr(n \div 10) \o <<Digits[(n % 10) + 1]>>

\* str(value)
PyStrOf(v) ==
    CASE v.k = "bool" -> IF v.b THEN <<"T", "r", "u", "e">>
                                ELSE <<"F", "a", "l", "s", "e">>
      [] v.k = "int" -> IF v.n < 0 THEN <<"-">> \o NatToStr(0 - v.n)
                                   ELSE NatToStr(v.n)
      [] v.k = "str" -> v.s
      [] OTHER -> <<"N", "o", "n", "e">>

\* int(text) of an already stripped text: an optional sign and decimal
\* digits; anything else raises ValueError (ok = FALSE)
ParseInt(cs) ==
    LET signed == cs # <<>> /\ Head(cs) \in {"+", "-"}
        body == IF signed THEN Tail(cs) ELSE cs
        ok == body # <<>> /\ \A i \in 1..Len(body) : IsDigit(body[i])
        mag == IF ok THEN DigitsValue(body) ELSE 0
    IN  [ok |-> ok,
         n |-> IF signed /\ Head(cs) = "-" THEN 0 - mag ELSE mag]

----------------------------------------------------------------------------
(* Constants / small helpers                                               *)

VALID_LEVELS == 1..5
LEVEL_DEFAULT == 2

\* a conversion that accepts True, 1 and the exact lower-case words only
to_bool_exact_words(value) ==
    \/ value.k = "bool" /\ value.b
    \/ value.k = "int" /\ value.n = 1
    \/ value.k = "str" /\ value.s \in {<<"t", "r", "u", "e">>, <<"y", "e", "s">>, <<"o", "n">>, <<"1">>}

TruthyStrings ==
    { <<"t", "r", "u", "e">>, <<"1">>, <<"y", "e", "s">>, <<"y">>, <<"o", "n">> }

to_bool(value) ==
    CASE value.k = "bool" -> value.b
      [] value.k \in {"none", "absent"} -> FALSE
      [] value.k = "int" -> value.n # 0
      [] OTHER -> StrLower(StrStrip(value.s)) \in TruthyStrings

to_level(value, default) ==
    LET p == ParseInt(StrStrip(PyStrOf(value)))
    IN  IF ~p.ok THEN default
        ELSE IF p.n \in VALID_LEVELS THEN p.n ELSE default

\* isinstance(value, int) holds of bools too, and True == 1
is_valid_level(value) ==
    /\ value.k \in {"int", "bool"}
    /\ AsInt(value) \in VALID_LEVELS

----------------------------------------------------------------------------
(* The question bank (supplied once, immutable) and the key namespace.     *)

question_bank == << [dim |-> "Process", concepts |-> <<"CI", "Review">>] >>

RECURSIVE BankQuestions(_)
BankQuestions(bank) ==
    IF bank = <<>> THEN <<>>
    ELSE [i \in 1..Len(Head(bank).concepts) |->
             [dim |-> Head(bank).dim, concept |-> Head(bank).concepts[i]]]
         \o BankQuestions(Tail(bank))

\* the (dimension, concept) pairs in the iteration order of the bank
Questions == BankQuestions(question_bank)
QIds == 1..Len(Questions)

\* the checklist keys of a question, in the order the code visits them
CheckKeys == <<"a_key", "b_key", "c_key", "rt_key", "none_key">>
CheckKeySet == {CheckKeys[i] : i \in 1..Len(CheckKeys)}

\* the session keys of one question, none of them present
build_question_keys ==
    [qkey |-> Absent, override_key |-> Absent, override_level_key |-> Absent,
     a_key |-> Absent, b_key |-> Absent, c_key |-> Absent, rt_key |-> Absent,
     none_key |-> Absent]

PageKeys == {"company_name_loaded", "auto_loaded_signature", "answers_uploader",
             "force_questionnaire_reload"}

----------------------------------------------------------------------------
(* Per-question helpers                                                    *)

normalize_checkbox_state(b) ==
    [key \in DOMAIN b |->
        IF key \in CheckKeySet /\ b[key].k # "absent"
        THEN PyBool(to_bool(b[key]))
        ELSE b[key]]

\* a rehydration whose thresholds are off by one (level > 3, > 4, > 5)
rehydrate_checkboxes_off_by_one(b, level) ==
    IF level = 1
    THEN [b EXCEPT !.a_key = PyBool(FALSE), !.b_key = PyBool(FALSE),
                   !.c_key = PyBool(FALSE), !.rt_key = PyBool(FALSE),
                   !.none_key = PyBool(TRUE)]
    ELSE [b EXCEPT !.a_key = PyBool(TRUE), !.b_key = PyBool(level > 3),
                   !.c_key = PyBool(level > 4), !.rt_key = PyBool(level > 5),
                   !.none_key = PyBool(FALSE)]

\* a rehydration that ticks the boxes of the level and resets no other box
rehydrate_checkboxes_without_reset(b, level) ==
    IF level = 1
    THEN [b EXCEPT !.none_key = PyBool(TRUE)]
    ELSE [b EXCEPT !.a_key = PyBool(TRUE),
                   !.b_key = IF level >= 3 THEN PyBool(TRUE) ELSE b.b_key,
                   !.c_key = IF level >= 4 THEN PyBool(TRUE) ELSE b.c_key,
                   !.rt_key = IF level >= 5 THEN PyBool(TRUE) ELSE b.rt_key]

rehydrate_checkboxes_from_level(b, level) ==
    LET reset == [b EXCEPT !.a_key = PyBool(FALSE), !.b_key = PyBool(FALSE),
                           !.c_key = PyBool(FALSE), !.rt_key = PyBool(FALSE),
                           !.none_key = PyBool(FALSE)]
    IN  IF level = 1
        THEN [reset EXCEPT !.none_key = PyBool(TRUE)]
        ELSE [reset EXCEPT !.a_key = PyBool(TRUE),
                           !.b_key = PyBool(level >= 3),
                           !.c_key = PyBool(level >= 4),
                           !.rt_key = PyBool(level >= 5)]

has_any_checkbox_selected(b) ==
    \E i \in 1..Len(CheckKeys) : to_bool(Get(b[CheckKeys[i]]))

\* domain.scoring.compute_suggested_level: opaque, deterministic, in 2..5
compute_suggested_level(a, b, c, rt) == scoring[<<a, b, c, rt>>]

\* a rule that does not look for a contradictory selection
compute_level_ignoring_contradiction(none, a, b, c, rt) ==
    IF ~(none \/ a \/ b \/ c \/ rt)
    THEN [value |-> PyNone, calls |-> <<>>]
    ELSE IF none
    THEN [value |-> PyInt(1), calls |-> <<>>]
    ELSE [value |-> PyInt(compute_suggested_level(a, b, c, rt)),
          calls |-> << <<a, b, c, rt>> >>]

\* a rule that asks for the score before it looks at the selection
compute_level_scoring_first(none, a, b, c, rt) ==
    [value |-> IF ~(none \/ a \/ b \/ c \/ rt) \/ (none /\ (a \/ b \/ c \/ rt))
               THEN PyNone
               ELSE IF none THEN PyInt(1)
               ELSE PyInt(compute_suggested_level(a, b, c, rt)),
     calls |-> << <<a, b, c, rt>> >>]

\* value: None (invalid) or the level; calls: the argument tuples handed to
\* compute_suggested_level
compute_level_from_checklist(none, a, b, c, rt) ==
    LET any_selected == none \/ a \/ b \/ c \/ rt
        contradictory == none /\ (a \/ b \/ c \/ rt)
    IN  IF ~any_selected \/ contradictory
        THEN [value |-> PyNone, calls |-> <<>>]
        ELSE IF none
        THEN [value |-> PyInt(1), calls |-> <<>>]
        ELSE [value |-> PyInt(compute_suggested_level(a, b, c, rt)),
              calls |-> << <<a, b, c, rt>> >>]

\* an initialisation that trusts an override level that is present
ensure_override_level_keeps_present(b) ==
    IF b.override_level_key.k # "absent"
    THEN b
    ELSE [b EXCEPT !.override_level_key = PyInt(LEVEL_DEFAULT)]

ensure_override_level_initialized(b) ==
    IF b.override_level_key.k # "absent"
    THEN [b EXCEPT !.override_level_key =
                       PyInt(to_level(b.override_level_key, LEVEL_DEFAULT))]
    ELSE [b EXCEPT !.override_level_key = PyInt(LEVEL_DEFAULT)]

\* st.checkbox(label, key=...): a key that is not in the session state is
\* created with the widget's default, False; the widget returns the value
RenderCheckboxes(b) ==
    [key \in DOMAIN b |->
        IF key \in CheckKeySet /\ b[key].k = "absent"
        THEN PyBool(FALSE)
        ELSE b[key]]

\* override controls that show the radio and leave the level key alone
render_override_controls_level_not_stored(b, click) ==
    IF ~Truthy(GetOrFalse(b.override_key))
    THEN [b |-> b, rerun |-> FALSE, wrote |-> FALSE]
    ELSE IF click = "disable"
    THEN [b |-> [b EXCEPT !.override_key = PyBool(FALSE),
                          !.override_level_key = Absent],
          rerun |-> TRUE, wrote |-> FALSE]
    ELSE [b |-> ensure_override_level_initialized(b), rerun |-> FALSE,
          wrote |-> FALSE]

\* override controls that do not test the override flag before the radio
render_override_controls_unguarded(b, click) ==
    IF click = "disable"
    THEN [b |-> [b EXCEPT !.qkey = PyInt(AsInt(
                              ensure_override_level_initialized(b).override_level_key)),
                          !.override_key = PyBool(FALSE),
                          !.override_level_key = Absent],
          rerun |-> TRUE, wrote |-> TRUE]
    ELSE [b |-> [ensure_override_level_initialized(b) EXCEPT
                     !.qkey = PyInt(AsInt(
                         ensure_override_level_initialized(b).override_level_key))],
          rerun |-> FALSE, wrote |-> TRUE]

\* override controls whose "Use automatic level again" button clears the
\* flag and leaves the override level key in the session
render_override_controls_level_kept(b, click) ==
    IF ~Truthy(GetOrFalse(b.override_key))
    THEN [b |-> b, rerun |-> FALSE, wrote |-> FALSE]
    ELSE IF click = "disable"
    THEN [b |-> [ensure_override_level_initialized(b) EXCEPT
                     !.qkey = PyInt(AsInt(
                         ensure_override_level_initialized(b).override_level_key)),
                     !.override_key = PyBool(FALSE)],
          rerun |-> TRUE, wrote |-> TRUE]
    ELSE [b |-> [ensure_override_level_initialized(b) EXCEPT
                     !.qkey = PyInt(AsInt(
                         ensure_override_level_initialized(b).override_level_key))],
          rerun |-> FALSE, wrote |-> TRUE]

\* click: "disable" when this run was started by the question's "Use
\* automatic level again" button.  wrote: the level key was assigned here.
render_override_controls(b, click) ==
    IF ~Truthy(GetOrFalse(b.override_key))
    THEN [b |-> b, rerun |-> FALSE, wrote |-> FALSE]
    ELSE LET b1 == ensure_override_level_initialized(b)
             chosen == b1.override_level_key
             b2 == [b1 EXCEPT !.qkey = PyInt(AsInt(chosen))]
         IN  IF click = "disable"
             THEN [b |-> [b2 EXCEPT !.override_key = PyBool(FALSE),
                                    !.override_level_key = Absent],
                   rerun |-> TRUE, wrote |-> TRUE]
             ELSE [b |-> b2, rerun |-> FALSE, wrote |-> TRUE]

\* an enable button that always seeds the override level with the default
render_enable_override_button_default_seed(b, click) ==
    IF ~Truthy(GetOrFalse(b.override_key)) /\ click = "enable"
    THEN [b |-> [b EXCEPT !.override_key = PyBool(TRUE),
                          !.override_level_key = PyInt(LEVEL_DEFAULT)],
          rerun |-> TRUE]
    ELSE [b |-> b, rerun |-> FALSE]

\* click: "enable" when this run was started by the question's "Change this
\* level" button
render_enable_override_button(b, click) ==
    LET is_overriding == Truthy(GetOrFalse(b.override_key))
        cur == Get(b.qkey)
    IN  IF ~is_overriding /\ click = "enable"
        THEN [b |-> [b EXCEPT
                       !.override_key = PyBool(TRUE),
                       !.override_level_key =
                           PyInt(IF is_valid_level(cur) THEN AsInt(cur)
                                                        ELSE LEVEL_DEFAULT)],
              rerun |-> TRUE]
        ELSE [b |-> b, rerun |-> FALSE]

\* what an evaluation that never ran leaves in ev
NotEvaluated ==
    [status |-> "skipped", pre_level |-> PyNone, pre_any |-> FALSE,
     raw |-> [key \in CheckKeySet |-> Absent],
     pre_sel |-> [a |-> FALSE, b |-> FALSE, c |-> FALSE, rt |-> FALSE,
                  none |-> FALSE],
     rehydrated |-> FALSE,
     sel |-> [a |-> FALSE, b |-> FALSE, c |-> FALSE, rt |-> FALSE, none |-> FALSE],
     is_overriding |-> FALSE, auto |-> Absent, calls |-> <<>>, writers |-> {},
     final |-> PyNone]

(* The body of the loop over the questions, for one question, as the        *)
(* sequence of its steps.  Each step takes and returns the evaluation's     *)
(* context: the question's keys (b), the button this run sees pressed on    *)
(* the question (click), the locals of the loop body, and rerun, set once   *)
(* st.rerun() has abandoned the run.                                        *)

EvalStart(b0, click) ==
    [b |-> b0, click |-> click, rerun |-> FALSE,
     raw |-> [key \in CheckKeySet |-> b0[key]],
     pre_level |-> PyNone, pre_any |-> FALSE,
     pre_sel |-> NotEvaluated.pre_sel, rehydrated |-> FALSE,
     sel |-> NotEvaluated.sel, is_overriding |-> FALSE, auto |-> Absent,
     calls |-> <<>>, writers |-> {}, final |-> PyNone]

\* normalize checkbox state before rendering widgets
Normalized(c) == [c EXCEPT !.b = normalize_checkbox_state(c.b)]

\* the five checklist values of the keys b, read as booleans
CheckedValues(b) ==
    [a |-> to_bool(Get(b.a_key)), b |-> to_bool(Get(b.b_key)),
     c |-> to_bool(Get(b.c_key)), rt |-> to_bool(Get(b.rt_key)),
     none |-> to_bool(Get(b.none_key))]

\* a rehydration that does not look at the checklist
Rehydrated_whenever_level_valid(c) ==
    IF is_valid_level(Get(c.b.qkey))
    THEN [c EXCEPT !.pre_level = Get(c.b.qkey),
                   !.pre_any = has_any_checkbox_selected(c.b),
                   !.pre_sel = CheckedValues(c.b),
                   !.rehydrated = TRUE,
                   !.b = rehydrate_checkboxes_from_level(
                             c.b, AsInt(Get(c.b.qkey)))]
    ELSE [c EXCEPT !.pre_level = Get(c.b.qkey),
                   !.pre_any = has_any_checkbox_selected(c.b),
                   !.pre_sel = CheckedValues(c.b)]

\* rehydrate only if a valid stored level exists but no checkbox state exists
\* (pre_level, pre_any, pre_sel: the level and the checklist the evaluation
\* found)
Rehydrated(c) ==
    LET existing_level == Get(c.b.qkey)
        any == has_any_checkbox_selected(c.b)
    IN  IF is_valid_level(existing_level) /\ ~any
        THEN [c EXCEPT !.pre_level = existing_level, !.pre_any = any,
                       !.pre_sel = CheckedValues(c.b),
                       !.rehydrated = TRUE,
                       !.b = rehydrate_checkboxes_from_level(
                                 c.b, AsInt(existing_level))]
        ELSE [c EXCEPT !.pre_level = existing_level, !.pre_any = any,
                       !.pre_sel = CheckedValues(c.b)]

\* the five checkbox widgets
WidgetsRendered(c) == [c EXCEPT !.b = RenderCheckboxes(c.b)]

\* a, b, c, rt, none as the widgets return them, and is_overriding
ChecklistRead(c) ==
    [c EXCEPT !.sel = [a |-> c.b.a_key.b, b |-> c.b.b_key.b, c |-> c.b.c_key.b,
                       rt |-> c.b.rt_key.b, none |-> c.b.none_key.b],
              !.is_overriding = Truthy(GetOrFalse(c.b.override_key))]

\* an automatic scoring that leaves the level key alone when the rule
\* gives nothing
AutoStored_invalid_keeps_level(c, auto) ==
    [c EXCEPT !.auto = auto.value,
              !.calls = auto.calls,
              !.writers = c.writers \cup {"rule"},
              !.b.qkey = IF auto.value = PyNone THEN c.b.qkey ELSE auto.value]

AutoStored(c, auto) ==
    [c EXCEPT !.auto = auto.value,
              !.calls = auto.calls,
              !.writers = c.writers \cup {"rule"},
              !.b.qkey = IF auto.value = PyNone THEN Absent ELSE auto.value]

\* automatic scoring (only when not overriding)
AutoScored(c) ==
    IF c.is_overriding THEN c
    ELSE AutoStored(c, compute_level_from_checklist(
                           c.sel.none, c.sel.a, c.sel.b, c.sel.c, c.sel.rt))

OverrideApplied(c, oc) ==
    [c EXCEPT !.b = oc.b,
              !.rerun = oc.rerun,
              !.writers = IF oc.wrote THEN c.writers \cup {"override"}
                                      ELSE c.writers]

\* manual override controls (radio)
OverrideControlled(c) ==
    OverrideApplied(c, render_override_controls(c.b, c.click))

EnableApplied(c, eb) == [c EXCEPT !.b = eb.b, !.rerun = eb.rerun]

\* right column: metric + enable button
EnableButtonRendered(c) ==
    IF c.rerun THEN c
    ELSE EnableApplied(c, render_enable_override_button(c.b, c.click))

\* a final validation that asks for a clean selection of an overridden
\* question too
Validated_selection_always_required(c) ==
    IF /\ ~c.rerun
       /\ is_valid_level(Get(c.b.qkey))
       /\ c.sel.none \/ c.sel.a \/ c.sel.b \/ c.sel.c \/ c.sel.rt
       /\ ~(c.sel.none /\ (c.sel.a \/ c.sel.b \/ c.sel.c \/ c.sel.rt))
    THEN [c EXCEPT !.final = PyInt(AsInt(Get(c.b.qkey)))]
    ELSE c

\* final validation: the question's value in responses_raw
Validated(c) ==
    LET final_level == Get(c.b.qkey)
        is_overriding == Truthy(GetOrFalse(c.b.override_key))
        any_selected == c.sel.none \/ c.sel.a \/ c.sel.b \/ c.sel.c \/ c.sel.rt
        contradictory == c.sel.none /\ (c.sel.a \/ c.sel.b \/ c.sel.c \/ c.sel.rt)
    IN  IF /\ ~c.rerun
           /\ is_valid_level(final_level)
           /\ is_overriding \/ (any_selected /\ ~contradictory)
        THEN [c EXCEPT !.final = PyInt(AsInt(final_level))]
        ELSE c

EvalQuestion(b0, click) ==
    Validated(EnableButtonRendered(OverrideControlled(AutoScored(
        ChecklistRead(WidgetsRendered(Rehydrated(Normalized(
            EvalStart(b0, click)))))))))

\* what ev keeps of an evaluation
EvalRecord(c) ==
    [status |-> IF c.rerun THEN "aborted" ELSE "completed", raw |-> c.raw,
     pre_level |-> c.pre_level, pre_any |-> c.pre_any,
     pre_sel |-> c.pre_sel, rehydrated |-> c.rehydrated, sel |-> c.sel,
     is_overriding |-> c.is_overriding, auto |-> c.auto, calls |-> c.calls,
     writers |-> c.writers, final |-> c.final]

----------------------------------------------------------------------------
(* The page                                                                *)

\* a reset that forgets the two override keys
reset_all_state_keeps_override(s, pk) ==
    [ss |-> [i \in DOMAIN s |->
                [build_question_keys EXCEPT
                     !.override_key = s[i].override_key,
                     !.override_level_key = s[i].override_level_key]],
     page_keys |-> pk \ PageKeys]

reset_all_state(s, pk) ==
    [ss |-> [i \in DOMAIN s |-> build_question_keys], page_keys |-> pk \ PageKeys]

count_completed_answers(s) ==
    Cardinality({i \in DOMAIN s : is_valid_level(Get(s[i].qkey))})

\* f"{dim} → {concept}"
MissingLabel(q) == q.dim \o " → " \o q.concept

\* a loop that puts each missing question in front of the list
RECURSIVE BuildMissing_prepending(_, _)
BuildMissing_prepending(resp, i) ==
    IF i > Len(Questions) THEN <<>>
    ELSE BuildMissing_prepending(resp, i + 1)
         \o (IF resp[i] = PyNone THEN <<MissingLabel(Questions[i])>> ELSE <<>>)

\* the loop that builds the missing list from responses_raw
RECURSIVE BuildMissing(_, _)
BuildMissing(resp, i) ==
    IF i > Len(Questions) THEN <<>>
    ELSE (IF resp[i] = PyNone THEN <<MissingLabel(Questions[i])>> ELSE <<>>)
         \o BuildMissing(resp, i + 1)

\* The loop over the questions from question i on.  click is the button
\* this run sees pressed, on question click.q.
RECURSIVE QuestionLoop(_, _, _, _, _)
RECURSIVE QuestionStep(_, _, _, _, _, _)
QuestionLoop(s, resp, evs, i, click) ==
    IF i > Len(Questions)
    THEN [ss |-> s, responses_raw |-> resp, ev |-> evs, rerun |-> FALSE]
    ELSE QuestionStep(s, resp, evs, i, click,
             EvalQuestion(s[i], IF click.q = i THEN click.kind ELSE "none"))

\* question i evaluated with outcome r: the run stops at st.rerun() or
\* records the value and goes on
QuestionStep(s, resp, evs, i, click, r) ==
    IF r.rerun
    THEN [ss |-> [s EXCEPT ![i] = r.b], responses_raw |-> resp,
          ev |-> [evs EXCEPT ![i] = EvalRecord(r)], rerun |-> TRUE]
    ELSE QuestionLoop([s EXCEPT ![i] = r.b], [resp EXCEPT ![i] = r.final],
                      [evs EXCEPT ![i] = EvalRecord(r)], i + 1, click)

NoClick == [kind |-> "none", q |-> 0]
NoEvaluations == [i \in QIds |-> NotEvaluated]

\* a run that st.rerun() abandons with session state s and page keys pk:
\* the outputs of the latest run that returned stay what they were
Abandoned(s, pk, done, evs) ==
    [ss |-> s, page_keys |-> pk, returned |-> FALSE, completed |-> done,
     responses_raw |-> responses_raw, missing |-> missing, ev |-> evs]

ResetClicked(r) == Abandoned(r.ss, r.page_keys, completed, NoEvaluations)

\* the end of the page: the missing list and the returned dictionary
PageEnd(pk, done, loop) ==
    IF loop.rerun
    THEN Abandoned(loop.ss, pk, done, loop.ev)
    ELSE [ss |-> loop.ss, page_keys |-> pk, returned |-> TRUE,
          completed |-> done, responses_raw |-> loop.responses_raw,
          missing |-> BuildMissing(loop.responses_raw, 1), ev |-> loop.ev]

\* render_questionnaire_page, from session state s and page keys pk.
\* returned: the page returned its dictionary; otherwise it called st.rerun()
render_questionnaire_page(s, pk, click) ==
    IF "force_questionnaire_reload" \in pk
    THEN Abandoned(s, pk \ {"force_questionnaire_reload"}, completed,
                   NoEvaluations)
    ELSE IF click.kind = "reset"
    THEN ResetClicked(reset_all_state(s, pk))
    ELSE PageEnd(pk, count_completed_answers(s),
                 QuestionLoop(s, [i \in QIds |-> PyNone], NoEvaluations, 1, click))

\* the flow after the questionnaire returned or was abandoned; see: the
\* "See results" button is reached and pressed
FlowEnd(q_out, flag, see) ==
    /\ ss' = q_out.ss
    /\ page_keys' = q_out.page_keys
    /\ show_results' = IF see THEN PyBool(TRUE) ELSE flag
    /\ run_requested' = (~q_out.returned \/ see)
    /\ completed' = q_out.completed
    /\ responses_raw' = q_out.responses_raw
    /\ missing' = q_out.missing
    /\ results_shown' = (/\ q_out.returned
                         /\ Len(question_bank) > 0
                         /\ ~see
                         /\ Truthy(flag))
    /\ ev' = q_out.ev
    /\ UNCHANGED scoring

SeeResultsReached(q_out, click) ==
    /\ q_out.returned
    /\ Len(question_bank) > 0
    /\ click.kind = "see_results"

FlowAfterPage(q_out, flag, click) ==
    FlowEnd(q_out, flag, SeeResultsReached(q_out, click))

\* run_app_flow past the eligibility gates, as one step of the model
run_app_flow(s, click) ==
    FlowAfterPage(render_questionnaire_page(s, page_keys, click),
                  IF show_results.k = "absent" THEN PyBool(FALSE) ELSE show_results,
                  click)

----------------------------------------------------------------------------
(* The scoring functions a session may run with.  The source of            *)
(* domain.scoring is not part of the page; its contract is "deterministic, *)
(* returns a level in 2..5".                                               *)

Selections == BOOLEAN \X BOOLEAN \X BOOLEAN \X BOOLEAN

Count(t) == Cardinality({i \in 1..4 : t[i]})

\* one level per selected item
ScoreByCount == [t \in Selections |-> IF Count(t) = 0 THEN 2 ELSE Count(t) + 1]

\* the level of the most demanding selected item
ScoreByHighest ==
    [t \in Selections |->
        IF t[4] THEN 5 ELSE IF t[3] THEN 4 ELSE IF t[2] THEN 3 ELSE 2]

\* level 5 needs the rt item alone, the other items never lift above 2
ScoreRtOnly == [t \in Selections |-> IF t[4] /\ Count(t) = 1 THEN 5 ELSE 2]

ScoringCandidates == {ScoreByCount, ScoreByHighest, ScoreRtOnly}

----------------------------------------------------------------------------
(* Bookkeeping of the interaction that started a run                       *)

\* act on question q (0: none); key, off: the checkbox toggled and whether it
\* was ticked before; after: what started the run before this one; before:
\* the number of questions with a valid stored level when the user acted
Interaction(act, q, key, off) ==
    [act |-> act, q |-> q, key |-> key, off |-> off, after |-> last.act,
     before |-> count_completed_answers(ss)]

Selection(b) ==
    [a |-> to_bool(Get(b.a_key)), b |-> to_bool(Get(b.b_key)),
     c |-> to_bool(Get(b.c_key)), rt |-> to_bool(Get(b.rt_key)),
     none |-> to_bool(Get(b.none_key))]

NoProbe == [phase |-> 0, q |-> 0, sel |-> NotEvaluated.sel]

\* phase 1: override enabled on q from the automatic state, with the
\* selection the user had; 2: the rerun after it; 3: override disabled on q
\* with nothing in between; 4: the rerun after that
ProbeStep(act, q) ==
    CASE act = "enable" -> [phase |-> 1, q |-> q, sel |-> Selection(ss[q])]
      [] act = "rerun" /\ probe.phase \in {1, 3} ->
            [probe EXCEPT !.phase = probe.phase + 1]
      [] act = "disable" /\ probe.phase = 2 /\ probe.q = q ->
            [probe EXCEPT !.phase = 3]
      [] OTHER -> NoProbe

Idle == ~run_requested /\ actions < MaxActions

----------------------------------------------------------------------------
(* Init and the actions                                                    *)

Init ==
    /\ ss = [i \in QIds |-> build_question_keys]
    /\ page_keys = {}
    /\ show_results = Absent
    /\ scoring \in ScoringCandidates
    /\ run_requested = TRUE
    /\ completed = 0
    /\ responses_raw = [i \in QIds |-> PyNone]
    /\ missing = <<>>
    /\ results_shown = FALSE
    /\ ev = NoEvaluations
    /\ last = [act |-> "load", q |-> 0, key |-> "", off |-> FALSE,
               after |-> "", before |-> 0]
    /\ probe = NoProbe
    /\ actions = 0

\* the page load and every run st.rerun() asks for
Rerun ==
    /\ run_requested
    /\ run_app_flow(ss, NoClick)
    /\ last' = [last EXCEPT !.act = "rerun", !.after = last.act]
    /\ probe' = ProbeStep("rerun", 0)
    /\ UNCHANGED actions

\* an interaction that changes no key of the page (the download button, an
\* expander, a widget of the results page)
Interact ==
    /\ Idle
    /\ run_app_flow(ss, NoClick)
    /\ last' = Interaction("interact", 0, "", FALSE)
    /\ probe' = ProbeStep("interact", 0)
    /\ actions' = actions + 1

\* the user ticks or unticks one checkbox of question q
ToggleCheckbox(q, key) ==
    /\ Idle
    /\ ss[q][key].k = "bool"
    /\ run_app_flow([ss EXCEPT ![q][key] = PyBool(~ss[q][key].b)], NoClick)
    /\ last' = Interaction("toggle", q, key, ss[q][key].b)
    /\ probe' = ProbeStep("toggle", q)
    /\ actions' = actions + 1

\* the user picks another level on the override radio of question q
ChooseOverrideLevel(q, level) ==
    /\ Idle
    /\ ev[q].status = "completed" /\ ev[q].is_overriding
    /\ ss[q].override_level_key # PyInt(level)
    /\ run_app_flow([ss EXCEPT ![q].override_level_key = PyInt(level)], NoClick)
    /\ last' = Interaction("choose", q, "", FALSE)
    /\ probe' = ProbeStep("choose", q)
    /\ actions' = actions + 1

\* "Change this level" of question q
ClickEnableOverride(q) ==
    /\ Idle
    /\ ev[q].status = "completed" /\ ~Truthy(GetOrFalse(ss[q].override_key))
    /\ run_app_flow(ss, [kind |-> "enable", q |-> q])
    /\ last' = Interaction("enable", q, "", FALSE)
    /\ probe' = ProbeStep("enable", q)
    /\ actions' = actions + 1

\* "Use automatic level again" of question q
ClickDisableOverride(q) ==
    /\ Idle
    /\ ev[q].status = "completed" /\ ev[q].is_overriding
    /\ run_app_flow(ss, [kind |-> "disable", q |-> q])
    /\ last' = Interaction("disable", q, "", FALSE)
    /\ probe' = ProbeStep("disable", q)
    /\ actions' = actions + 1

\* "Reset all answers"
ClickReset ==
    /\ Idle
    /\ run_app_flow(ss, [kind |-> "reset", q |-> 0])
    /\ last' = Interaction("reset", 0, "", FALSE)
    /\ probe' = ProbeStep("reset", 0)
    /\ actions' = actions + 1

\* "See results"
ClickSeeResults ==
    /\ Idle
    /\ run_app_flow(ss, [kind |-> "see_results", q |-> 0])
    /\ last' = Interaction("see_results", 0, "", FALSE)
    /\ probe' = ProbeStep("see_results", 0)
    /\ actions' = actions + 1

\* The import collaborator restores question q from a file that supplies
\* only a level: it writes the level key, leaves no other key of the
\* question, marks the import and asks for a rerun.
ImportLevel(q, level) ==
    /\ Idle
    /\ ss' = [ss EXCEPT ![q] = [build_question_keys EXCEPT !.qkey = PyInt(level)]]
    /\ page_keys' = page_keys \cup {"auto_loaded_signature",
                                    "force_questionnaire_reload"}
    /\ run_requested' = TRUE
    /\ ev' = NoEvaluations
    /\ results_shown' = FALSE
    /\ last' = Interaction("import", q, "", FALSE)
    /\ probe' = ProbeStep("import", q)
    /\ actions' = actions + 1
    /\ UNCHANGED <<show_results, scoring, completed, responses_raw, missing>>

Next ==
    \/ Rerun
    \/ Interact
    \/ \E q \in QIds : \E i \in 1..Len(CheckKeys) : ToggleCheckbox(q, CheckKeys[i])
    \/ \E q \in QIds : \E level \in VALID_LEVELS : ChooseOverrideLevel(q, level)
    \/ \E q \in QIds : ClickEnableOverride(q)
    \/ \E q \in QIds : ClickDisableOverride(q)
    \/ ClickReset
    \/ ClickSeeResults
    \/ \E q \in QIds : \E level \in 0..MaxImportedLevel : ImportLevel(q, level)

Spec == Init /\ [][Next]_vars

----------------------------------------------------------------------------
(* A session restored by the import collaborator from a damaged file: the  *)
(* level key, the override level key and one checklist key of the first    *)
(* question hold whatever the file held.                                   *)

\* values an import may leave under a level key or an override level key
ImportedLevels ==
    {Absent, PyNone, PyBool(TRUE), PyInt(0 - 1), PyInt(0), PyInt(3), PyInt(6),
     PyStr(<<"4">>), PyStr(<<" ", "5", " ">>), PyStr(<<"7">>), PyStr(<<"a", "b", "c">>), PyStr(<<>>)}

\* values an import may leave under a checklist key
ImportedChecks ==
    {Absent, PyNone, PyBool(TRUE), PyBool(FALSE),
     PyInt(0 - 1), PyInt(0), PyInt(1), PyInt(2),
     PyStr(<<"t", "r", "u", "e">>), PyStr(<<"T", "R", "U", "E">>), PyStr(<<"Y", "e", "s">>), PyStr(<<"o", "n">>),
     PyStr(<<" ", "o", "n", " ">>), PyStr(<<"1">>), PyStr(<<"y">>), PyStr(<<"n", "o">>),
     PyStr(<<"0">>), PyStr(<<"2">>), PyStr(<<>>)}

\* the keys of a question as the import left them
ImportedKeys(level, flag, override_level, key, value) ==
    [build_question_keys EXCEPT !.qkey = level, !.override_key = flag,
                                !.override_level_key = override_level,
                                ![key] = value]

\* the import has written question 1, marked itself and asked for a rerun;
\* two user interactions are left to the session
InitImport ==
    /\ \E level, override_level \in ImportedLevels :
       \E flag \in {Absent, PyBool(TRUE)} :
       \E key \in {"a_key", "none_key"} :
       \E value \in ImportedChecks :
           ss = [i \in QIds |->
                    IF i = 1
                    THEN ImportedKeys(level, flag, override_level, key, value)
                    ELSE build_question_keys]
    /\ page_keys = {"auto_loaded_signature", "force_questionnaire_reload"}
    /\ show_results = Absent
    /\ scoring \in ScoringCandidates
    /\ run_requested = TRUE
    /\ completed = 0
    /\ responses_raw = [i \in QIds |-> PyNone]
    /\ missing = <<>>
    /\ results_shown = FALSE
    /\ ev = NoEvaluations
    /\ last = [act |-> "import", q |-> 1, key |-> "", off |-> FALSE,
               after |-> "", before |-> 0]
    /\ probe = NoProbe
    /\ actions = MaxActions - 2

SpecImport == InitImport /\ [][Next]_vars

----------------------------------------------------------------------------
(* Vocabulary of the properties                                            *)

\* the latest run returned from the page (it was not abandoned by st.rerun())
PageReturned == ~run_requested \/ last.act = "see_results"

\* the run that follows a reset has finished
AfterReset == last.act = "rerun" /\ last.after = "reset"

AllLabels == [i \in QIds |-> MissingLabel(Questions[i])]

\* what the Checklist Leveling Rule stores for a selection: nothing for an
\* empty or contradictory one, 1 for none alone, the score otherwise
RuleStores(sel) ==
    IF ~(sel.none \/ sel.a \/ sel.b \/ sel.c \/ sel.rt) THEN Absent
    ELSE IF sel.none /\ (sel.a \/ sel.b \/ sel.c \/ sel.rt) THEN Absent
    ELSE IF sel.none THEN PyInt(1)
    ELSE PyInt(scoring[<<sel.a, sel.b, sel.c, sel.rt>>])

----------------------------------------------------------------------------
(* C1 - override enabled, then disabled with nothing in between            *)

\* C1: once override was enabled from the automatic state and disabled again
\* with no other action in between, the pass that follows stores the level
\* the rule gives for the selection the user had before enabling (nothing
\* if it was empty or contradictory) and the checklist is that selection.
C1_DisableRestoresPriorSelection ==
    probe.phase = 4 =>
        /\ ss[probe.q].qkey = RuleStores(probe.sel)
        /\ Selection(ss[probe.q]) = probe.sel

----------------------------------------------------------------------------
(* C2 - progress count and missing list of one run                         *)

\* C2: in every run that returns, the progress count of that run plus the
\* length of its missing list is the number of questions of the bank.
C2_CompletedPlusMissingIsTotal ==
    PageReturned => completed + Len(missing) = Len(Questions)

----------------------------------------------------------------------------
(* C3 - reset                                                              *)

\* C3: the reset leaves none of the eight keys of any question, and the
\* pass that follows reports completed = 0 and every question missing.
C3_ResetClearsEveryQuestion ==
    /\ last.act = "reset" => \A q \in QIds : ss[q] = build_question_keys
    /\ AfterReset => /\ PageReturned
                     /\ completed = 0
                     /\ missing = AllLabels
                     /\ \A q \in QIds : ss[q].qkey = Absent

\* a reset of a session that had answered questions, and the pass after it
C3_Witness ==
    /\ AfterReset
    /\ last.before > 0
    /\ completed = 0
    /\ Len(missing) = Len(Questions)

----------------------------------------------------------------------------
(* C4 - the "results revealed" flag                                        *)

\* C4: once set by "See results" the flag stays true on every later run
\* until a reset, and a reset clears it: in the run that follows a reset
\* the flag is false and the results are not shown.
C4_FlagHeldUntilResetClearsIt ==
    [][/\ (Truthy(show_results) /\ last'.act # "reset" /\ ~AfterReset')
              => Truthy(show_results')
       /\ AfterReset' => (~Truthy(show_results') /\ ~results_shown')]_vars

----------------------------------------------------------------------------
(* C5 - rehydration followed by the rule                                   *)

\* the selection Rehydration Recovery is specified to write for level L >= 2
PrefixSelection(L) == <<TRUE, L >= 3, L >= 4, L >= 5>>

\* question q was rehydrated from a stored level in 2..5 and then scored by
\* the rule in its latest evaluation
RehydratedThenScored(q) ==
    /\ ev[q].status # "skipped"
    /\ ev[q].rehydrated
    /\ ~ev[q].is_overriding
    /\ AsInt(ev[q].pre_level) \in 2..5

----------------------------------------------------------------------------
(* C6 - the Checklist Leveling Rule                                        *)

\* C6: for every selection the rule is evaluated on, its result is invalid
\* when nothing is selected, invalid when none is selected together with an
\* item, 1 when only none is selected, and the score of (a, b, c, rt)
\* otherwise.
C6_RuleTable ==
    \A q \in QIds :
        (ev[q].status # "skipped" /\ ~ev[q].is_overriding) =>
            ev[q].auto =
                CASE ~(\E f \in DOMAIN ev[q].sel : ev[q].sel[f]) -> PyNone
                  [] ev[q].sel.none /\ (\E f \in {"a", "b", "c", "rt"} : ev[q].sel[f])
                        -> PyNone
                  [] ev[q].sel.none -> PyInt(1)
                  [] OTHER -> PyInt(scoring[<<ev[q].sel.a, ev[q].sel.b,
                                              ev[q].sel.c, ev[q].sel.rt>>])

\* the rule evaluated on a contradictory selection, and on a none-only one
C6_Witness ==
    /\ ev[1].status = "completed" /\ ~ev[1].is_overriding
    /\ ev[1].sel = [a |-> FALSE, b |-> TRUE, c |-> FALSE, rt |-> FALSE, none |-> TRUE]
    /\ ev[1].auto = PyNone
    /\ ev[2].status = "completed" /\ ~ev[2].is_overriding
    /\ ev[2].sel = [a |-> FALSE, b |-> FALSE, c |-> FALSE, rt |-> FALSE, none |-> TRUE]
    /\ ev[2].auto = PyInt(1)

----------------------------------------------------------------------------
(* C7 - the stored level while overriding                                  *)

\* C7: after every completed evaluation of a question whose override is
\* enabled, the stored level is the override level and the question's final
\* value is that level, whatever the checklist selection; a checkbox change
\* leaves the stored level what it was.
C7_OverrideDrivesLevel ==
    \A q \in QIds :
        (ev[q].status = "completed" /\ ev[q].is_overriding) =>
            /\ ss[q].qkey.k = "int" /\ ss[q].qkey.n \in VALID_LEVELS
            /\ ss[q].qkey = ss[q].override_level_key
            /\ ev[q].final = ss[q].qkey
            /\ (last.act = "toggle" /\ last.q = q) => ss[q].qkey = ev[q].pre_level

\* an overridden question evaluated with a contradictory selection after a
\* checkbox change, holding a level the user chose
C7_Witness ==
    \E q \in QIds :
        /\ ev[q].status = "completed" /\ ev[q].is_overriding
        /\ last.act = "toggle" /\ last.q = q
        /\ ev[q].sel.none /\ ev[q].sel.b
        /\ ss[q].qkey = PyInt(4)

----------------------------------------------------------------------------
(* C8 - deselecting the last selected item                                 *)

\* the run started by unticking the last ticked checkbox of question q,
\* whose level was computed automatically
LastItemDeselected(q) ==
    /\ last.act = "toggle" /\ last.q = q /\ last.off
    /\ PageReturned
    /\ ev[q].status = "completed"
    /\ ~ev[q].is_overriding
    /\ ~ev[q].pre_any
    /\ is_valid_level(ev[q].pre_level)

\* C8: after the user deselects the last selected item of an automatically
\* levelled question, the pass treats the selection as empty: the value is
\* absent, the stored level is cleared, the question is in the missing list
\* and the five checklist booleans are false.
C8_DeselectingLastItemClears ==
    \A q \in QIds :
        LastItemDeselected(q) =>
            /\ responses_raw[q] = PyNone
            /\ ss[q].qkey = Absent
            /\ \E i \in 1..Len(missing) : missing[i] = MissingLabel(Questions[q])
            /\ \A f \in DOMAIN Selection(ss[q]) : ~Selection(ss[q])[f]

----------------------------------------------------------------------------
(* C9 - idempotence of the pass                                            *)

\* a pass with outcome r changes neither the session state nor the outputs
PassChangesNothing(r) ==
    /\ r.returned
    /\ r.ss = ss
    /\ r.responses_raw = responses_raw
    /\ r.missing = missing

\* C9: on the result of a pass, a further pass with no user action yields
\* the same session state and the same outputs.
C9_PassIsIdempotent ==
    ~run_requested =>
        PassChangesNothing(render_questionnaire_page(ss, page_keys, NoClick))

----------------------------------------------------------------------------
(* C10 - one owner of the level key per evaluation                         *)

\* C10: in every evaluation the level key is written by exactly one owner,
\* the rule when the override flag read in it is false, the override
\* controller when it is true.
C10_OneWriterPerEvaluation ==
    \A q \in QIds :
        ev[q].status # "skipped" =>
            ev[q].writers = IF ev[q].is_overriding THEN {"override"} ELSE {"rule"}

\* one run in which one question is written by the override controller and
\* the other by the rule, which sets a level
C10_Witness ==
    \E q1, q2 \in QIds :
        /\ ev[q1].status = "completed" /\ ev[q1].writers = {"override"}
        /\ ev[q2].status = "completed" /\ ev[q2].writers = {"rule"}
        /\ is_valid_level(ss[q2].qkey)

----------------------------------------------------------------------------
(* C11 - the final value of a question                                     *)

\* the selection is one the validation accepts: something is ticked and
\* "none" is not ticked together with an item
CleanSelection(sel) ==
    /\ sel.none \/ sel.a \/ sel.b \/ sel.c \/ sel.rt
    /\ ~(sel.none /\ (sel.a \/ sel.b \/ sel.c \/ sel.rt))

\* C11: in every pass that returns, the final value of every question is
\* the stored level when the stored level is an integer in 1..5 and
\* (override is enabled or the selection is non-empty and not
\* contradictory), and is absent in every other case.
C11_FinalValueRule ==
    PageReturned =>
        \A q \in QIds :
            responses_raw[q] =
                IF /\ is_valid_level(Get(ss[q].qkey))
                   /\ \/ Truthy(GetOrFalse(ss[q].override_key))
                      \/ CleanSelection(Selection(ss[q]))
                THEN ss[q].qkey
                ELSE PyNone

\* a returned pass with an overridden question whose selection is
\* contradictory and whose value is present, and a question left empty
\* whose value is absent
C11_Witness ==
    /\ PageReturned
    /\ \E q \in QIds :
           /\ Truthy(GetOrFalse(ss[q].override_key))
           /\ Selection(ss[q]).none /\ Selection(ss[q]).a
           /\ responses_raw[q] = ss[q].qkey
           /\ is_valid_level(responses_raw[q])
    /\ \E q \in QIds :
           /\ ~Truthy(GetOrFalse(ss[q].override_key))
           /\ ~CleanSelection(Selection(ss[q]))
           /\ responses_raw[q] = PyNone

----------------------------------------------------------------------------
(* C12 - calls of the scoring function                                     *)

\* C12: an evaluation calls the scoring function only when override is
\* disabled, "none" is not ticked and at least one of a, b, c, rt is
\* ticked, and then once, with those four values; an overridden question,
\* an empty, a contradictory or a none-only selection causes no call.
C12_ScoringCalledOnlyForItems ==
    \A q \in QIds :
        /\ ev[q].calls # <<>> =>
               /\ ~ev[q].is_overriding
               /\ ~ev[q].sel.none
               /\ ev[q].sel.a \/ ev[q].sel.b \/ ev[q].sel.c \/ ev[q].sel.rt
               /\ ev[q].calls = << <<ev[q].sel.a, ev[q].sel.b, ev[q].sel.c,
                                     ev[q].sel.rt>> >>
        /\ (ev[q].is_overriding \/ ~CleanSelection(ev[q].sel) \/ ev[q].sel.none)
               => ev[q].calls = <<>>

\* one run in which an overridden question with item a ticked causes no
\* call and the other question, scored from its items, causes one
C12_Witness ==
    \E q1, q2 \in QIds :
        /\ ev[q1].status = "completed" /\ ev[q1].is_overriding
        /\ ev[q1].sel.a /\ ev[q1].calls = <<>>
        /\ ev[q2].status = "completed" /\ ~ev[q2].is_overriding
        /\ Len(ev[q2].calls) = 1

----------------------------------------------------------------------------
(* C13 - the stored level of an automatically levelled question            *)

\* C13: after every completed evaluation of a question whose override is
\* disabled, the level key agrees with the stored checklist booleans: it is
\* absent when the selection is empty or contradictory and otherwise holds
\* the integer the rule computes for them, whatever it held before.
C13_LevelKeyFollowsChecklist ==
    \A q \in QIds :
        (ev[q].status = "completed" /\ ~ev[q].is_overriding) =>
            /\ ss[q].qkey = RuleStores(Selection(ss[q]))
            /\ Selection(ss[q]) = ev[q].sel

\* a question that held a level and is evaluated with a contradictory
\* selection, which clears the key, next to a question that holds the
\* level of its selection
C13_Witness ==
    \E q1, q2 \in QIds :
        /\ ev[q1].status = "completed" /\ ~ev[q1].is_overriding
        /\ is_valid_level(ev[q1].pre_level)
        /\ ev[q1].sel.none /\ ev[q1].sel.a
        /\ ss[q1].qkey = Absent
        /\ ev[q2].status = "completed" /\ ~ev[q2].is_overriding
        /\ CleanSelection(ev[q2].sel)
        /\ is_valid_level(ss[q2].qkey)

----------------------------------------------------------------------------
(* C14 - enabling the override                                             *)

\* the step is the run started by "Change this level" on question q
EnableStep(q) == last'.act = "enable" /\ last'.q = q

\* C14: the run started by "Change this level" on a question in the
\* automatic state sets the override flag, sets the override level to the
\* stored level when that is an integer in 1..5 and to 2 otherwise, and
\* changes neither the level key nor any checklist key of the question.
C14_EnableSeedsOverrideLevel ==
    [][\A q \in QIds :
          EnableStep(q) =>
              /\ ss'[q].override_key = PyBool(TRUE)
              /\ ss'[q].override_level_key =
                     IF ss[q].qkey.k = "int" /\ ss[q].qkey.n \in 1..5
                     THEN ss[q].qkey
                     ELSE PyInt(2)
              /\ ss'[q].qkey = ss[q].qkey
              /\ \A i \in 1..Len(CheckKeys) :
                     ss'[q][CheckKeys[i]] = ss[q][CheckKeys[i]]]_vars

\* override just enabled on a question whose stored level is 5: the
\* override level is 5 and the level key still holds 5
C14_Witness ==
    /\ last.act = "enable"
    /\ ss[last.q].override_key = PyBool(TRUE)
    /\ ss[last.q].qkey = PyInt(5)
    /\ ss[last.q].override_level_key = PyInt(5)
    /\ Selection(ss[last.q]).rt

----------------------------------------------------------------------------
(* C15 - the override level key lives only while the flag is set           *)

\* the override level key of question q is in the session only with the
\* override flag set
OverrideLevelOnlyWhileEnabled(q) ==
    ss[q].override_level_key # Absent => ss[q].override_key = PyBool(TRUE)

\* C15: in every reachable state a question's override level key is in the
\* session only while its override flag is true, and the run started by
\* "Use automatic level again" sets the flag to false and deletes the
\* override level key in the same step.
C15_OverrideLevelOnlyWhileEnabled ==
    /\ [](\A q \in QIds : OverrideLevelOnlyWhileEnabled(q))
    /\ [][\A q \in QIds :
             (last'.act = "disable" /\ last'.q = q) =>
                 /\ ss[q].override_key = PyBool(TRUE)
                 /\ ss[q].override_level_key # Absent
                 /\ ss'[q].override_key = PyBool(FALSE)
                 /\ ss'[q].override_level_key = Absent]_vars

\* override just disabled on one question, its override level key gone,
\* while the other question is overridden and holds its override level
C15_Witness ==
    /\ last.act = "disable"
    /\ ss[last.q].override_key = PyBool(FALSE)
    /\ ss[last.q].override_level_key = Absent
    /\ \E q \in QIds :
           /\ ss[q].override_key = PyBool(TRUE)
           /\ is_valid_level(ss[q].override_level_key)

----------------------------------------------------------------------------
(* C16 - what rehydration may change                                       *)

\* C16: an evaluation changes checklist booleans by rehydration only when
\* it starts with a valid stored level and no checklist boolean true; an
\* evaluation that starts with a boolean true, or with no valid stored
\* level, leaves the five booleans as it found them, read as booleans.
C16_RehydrationTouchesOnlyEmptyChecklist ==
    \A q \in QIds :
        ev[q].status # "skipped" =>
            /\ ev[q].rehydrated <=>
                   /\ is_valid_level(ev[q].pre_level)
                   /\ \A f \in DOMAIN ev[q].pre_sel : ~ev[q].pre_sel[f]
            /\ ~ev[q].rehydrated =>
                   /\ ev[q].sel = ev[q].pre_sel
                   /\ CheckedValues(ss[q]) = ev[q].pre_sel
            /\ ev[q].sel # ev[q].pre_sel => ev[q].rehydrated

\* one run in which a question with a stored level and only rt ticked keeps
\* its checklist and the other question is rehydrated from its level
C16_Witness ==
    \E q1, q2 \in QIds :
        /\ ev[q1].status = "completed" /\ ~ev[q1].rehydrated
        /\ is_valid_level(ev[q1].pre_level)
        /\ ev[q1].pre_sel.rt /\ ~ev[q1].pre_sel.a
        /\ ev[q1].sel = ev[q1].pre_sel
        /\ ev[q2].status = "completed" /\ ev[q2].rehydrated
        /\ ev[q2].sel # ev[q2].pre_sel

----------------------------------------------------------------------------
(* C17 - the selection rehydration writes                                  *)

\* the selection specified for each level
RehydrationTable ==
    [L \in 1..5 |->
        [a |-> L \in {2, 3, 4, 5}, b |-> L \in {3, 4, 5}, c |-> L \in {4, 5},
         rt |-> L = 5, none |-> L = 1]]

\* the fields of a selection, in the order of CheckKeys
CheckFields == <<"a", "b", "c", "rt", "none">>

\* the checklist keys of the keys r hold the selection sel as bools
HoldsSelection(r, sel) ==
    \A i \in 1..Len(CheckKeys) : r[CheckKeys[i]] = PyBool(sel[CheckFields[i]])

\* the items of selection s are among the items of selection t
ItemsWithin(s, t) ==
    /\ s.a => t.a
    /\ s.b => t.b
    /\ s.c => t.c
    /\ s.rt => t.rt

\* C17: for every level L in 1..5 rehydration writes none alone for L = 1
\* and, for L >= 2, a, b iff L >= 3, c iff L >= 4, rt iff L >= 5 with none
\* false, whatever the checklist keys held; the selections it writes are
\* never empty, never contradictory, and grow with L over 2..5.  Every
\* evaluation that rehydrated reads that selection from the widgets.
C17_RehydrationTable ==
    /\ \A q \in QIds : \A L \in 1..5 :
           HoldsSelection(rehydrate_checkboxes_from_level(ss[q], L),
                          RehydrationTable[L])
    /\ \A L \in 1..5 : CleanSelection(RehydrationTable[L])
    /\ \A L, M \in 2..5 :
           L <= M => ItemsWithin(RehydrationTable[L], RehydrationTable[M])
    /\ \A q \in QIds :
           (ev[q].status # "skipped" /\ ev[q].rehydrated) =>
               ev[q].sel = RehydrationTable[AsInt(ev[q].pre_level)]

\* an evaluation that rehydrated a stored level 4 into a, b, c, next to a
\* question whose none and rt boxes are ticked
C17_Witness ==
    \E q1, q2 \in QIds :
        /\ ev[q1].status = "completed" /\ ev[q1].rehydrated
        /\ ev[q1].pre_level = PyInt(4)
        /\ ev[q1].sel = [a |-> TRUE, b |-> TRUE, c |-> TRUE, rt |-> FALSE,
                          none |-> FALSE]
        /\ CheckedValues(ss[q2]).none /\ CheckedValues(ss[q2]).rt

----------------------------------------------------------------------------
(* C18 - the missing list                                                  *)

\* the questions without a final value, in the order of the bank
AbsentQuestions == SelectSeq([i \in QIds |-> i], LAMBDA i : responses_raw[i] = PyNone)

\* C18: the missing list of a pass that returned holds the label
\* "dimension → concept" of exactly the questions whose final value is
\* absent, each once, in the iteration order of the bank.
C18_MissingListsAbsentQuestions ==
    PageReturned =>
        /\ Len(missing) = Len(AbsentQuestions)
        /\ \A k \in 1..Len(AbsentQuestions) :
               missing[k] = Questions[AbsentQuestions[k]].dim \o " → "
                                \o Questions[AbsentQuestions[k]].concept
        /\ \A q \in QIds :
               responses_raw[q] = PyNone <=>
                   Cardinality({k \in 1..Len(missing) :
                                   missing[k] = MissingLabel(Questions[q])}) = 1
        /\ \A q \in QIds :
               responses_raw[q] # PyNone =>
                   \A k \in 1..Len(missing) : missing[k] # MissingLabel(Questions[q])

\* after a checkbox change both questions are missing, the first with a
\* contradictory selection, and the list names them in bank order
C18_Witness ==
    /\ PageReturned
    /\ last.act = "toggle"
    /\ CheckedValues(ss[1]).none /\ CheckedValues(ss[1]).a
    /\ missing = <<"Process → CI", "Process → Review">>

----------------------------------------------------------------------------
(* C19 - a session with damaged values                                     *)

\* v is an integer in 1..5 (a bool is not)
LevelValue(v) == v.k = "int" /\ v.n \in 1..5

\* the evaluation of q applied int() only to values that have an integer
\* value, and the radio was given one of its options
NoFailure(q) ==
    /\ ev[q].rehydrated => ev[q].pre_level.k \in {"int", "bool"}
    /\ "override" \in ev[q].writers => LevelValue(ss[q].qkey)
    /\ ev[q].final # PyNone => LevelValue(ev[q].final)

\* v is no level: nothing, None, a bool, an integer outside 1..5, a text
\* without a digit or a numeral of a number outside 1..5
OutOfDomain(v) ==
    \/ v.k \in {"absent", "none", "bool"}
    \/ v.k = "int" /\ v.n \notin 1..5
    \/ v.k = "str" /\ \A i \in 1..Len(v.s) : ~IsDigit(v.s[i])
    \/ /\ v.k = "str" /\ v.s # <<>>
       /\ \A i \in 1..Len(v.s) : IsDigit(v.s[i])
       /\ DigitsValue(v.s) \notin 1..5

\* the step evaluates q to the end with override enabled and the user has
\* not picked a level on the radio
OverriddenEvaluation(q) ==
    /\ ev'[q].status = "completed" /\ ev'[q].is_overriding
    /\ last'.act # "choose"

\* C19: whatever an import left under the level, override level and
\* checklist keys, every pass that returns has evaluated every question
\* without a failure, and after it every stored level is absent or an
\* integer in 1..5, the override level of every overridden question is an
\* integer in 1..5 and every checklist key holds a bool; an evaluation with
\* override enabled turns an out-of-domain override level into 2 and keeps
\* one that is an integer in 1..5.
C19_DamagedValuesAreRepaired ==
    /\ [](PageReturned =>
             \A q \in QIds :
                 /\ ev[q].status = "completed"
                 /\ NoFailure(q)
                 /\ ss[q].qkey = Absent \/ LevelValue(ss[q].qkey)
                 /\ Truthy(GetOrFalse(ss[q].override_key))
                        => LevelValue(ss[q].override_level_key)
                 /\ \A i \in 1..Len(CheckKeys) :
                        ss[q][CheckKeys[i]] \in {PyBool(TRUE), PyBool(FALSE)})
    /\ [][\A q \in QIds :
             OverriddenEvaluation(q) =>
                 /\ OutOfDomain(ss[q].override_level_key)
                        => ss'[q].override_level_key = PyInt(2)
                 /\ LevelValue(ss[q].override_level_key)
                        => ss'[q].override_level_key = ss[q].override_level_key]_vars

\* the pass after an import that left a text under the level key of an
\* overridden question and a text under its none key: the level and the
\* override level are 2, the none key holds True
C19_Witness ==
    /\ PageReturned
    /\ last.act = "rerun" /\ last.after = "rerun"
    /\ ev[1].status = "completed" /\ ev[1].is_overriding
    /\ ev[1].pre_level = PyStr(<<"a", "b", "c">>)
    /\ ev[1].sel.none
    /\ ss[1].override_level_key = PyInt(2)
    /\ ss[1].qkey = PyInt(2)
    /\ ss[1].none_key = PyBool(TRUE)

----------------------------------------------------------------------------
(* C20 - normalisation of a stored checklist value                         *)

\* true exactly for True, the number 1 and the words "true", "yes", "on",
\* "1" in any case
StatedTruth(v) ==
    \/ v = PyBool(TRUE)
    \/ v = PyInt(1)
    \/ v.k = "str" /\ StrLower(v.s) \in {<<"t", "r", "u", "e">>, <<"y", "e", "s">>, <<"o", "n">>, <<"1">>}

\* true exactly for True, every integer but 0 and the words "true", "yes",
\* "y", "on", "1" in any case and with blanks around them
CodedTruth(v) ==
    \/ v = PyBool(TRUE)
    \/ v.k = "int" /\ v.n # 0
    \/ v.k = "str" /\ StrLower(StrStrip(v.s)) \in {<<"t", "r", "u", "e">>, <<"y", "e", "s">>, <<"y">>, <<"o", "n">>, <<"1">>}

\* C20 as stated: the value an evaluation reads from a checklist key after
\* normalisation is true exactly for True, the number 1 and the strings
\* "true", "yes", "on", "1" compared case-insensitively, and false for
\* every other stored value and for an absent key.
C20_NormalizesToStatedTruth ==
    \A q \in QIds :
        ev[q].status # "skipped" =>
            \A i \in 1..Len(CheckKeys) :
                ev[q].pre_sel[CheckFields[i]] = StatedTruth(ev[q].raw[CheckKeys[i]])

\* C20 as amended: the value an evaluation reads from a checklist key
\* after normalisation is true exactly for True, every integer other than
\* 0 and the strings "true", "yes", "y", "on", "1" compared
\* case-insensitively after stripping blanks; it is false for 0, None,
\* every other string and an absent key.
C20_NormalizesToCodedTruth ==
    \A q \in QIds :
        ev[q].status # "skipped" =>
            \A i \in 1..Len(CheckKeys) :
                ev[q].pre_sel[CheckFields[i]] = CodedTruth(ev[q].raw[CheckKeys[i]])

\* an evaluation that found "Yes" under the none key of a question
\* without a level and read it as true
C20_Witness ==
    /\ ev[1].status = "completed"
    /\ ev[1].raw["none_key"] = PyStr(<<"Y", "e", "s">>)
    /\ ev[1].pre_sel.none
    /\ ss[1].none_key = PyBool(TRUE)

====
